---------------------------- MODULE Spec2Model ----------------------------
(***************************************************************************)
(* json-data-cache: a path-addressable JSON document (DataCache) with an   *)
(* offset-tracking serializer (JsonSerializer) and a multi-pattern         *)
(* placeholder substitution built on the serialized buffers.               *)
(*                                                                         *)
(* Text is a sequence of one-character strings.  A JSON value is a record  *)
(*   [t, s, n, keys, kids]                                                 *)
(* t: "null" | "bool" | "num" | "str" | "arr" | "obj";  s: the content of  *)
(* a string; n: the number (or 0/1 for a bool); keys/kids: the entries of  *)
(* an object in insertion order (serde_json with preserve_order, as the    *)
(* serializer test expects); kids alone: the elements of an array.         *)
(***************************************************************************)
EXTENDS Integers, Sequences, FiniteSets, TLC

VARIABLES root, sd, out, res, last, ser

vars == <<root, sd, out, res, last, ser>>

---------------------------------------------------------------------------
(* Bounds of the model *)

\* a tree mutation is explored only while the tree keeps at most this many nodes
MaxNodes == 5

\* the serializer is applied to every tree of at most this many nodes
SerNodes == 4

---------------------------------------------------------------------------
(* serde_json::Value *)

Null == [t |-> "null", s |-> <<>>, n |-> 0, keys |-> <<>>, kids |-> <<>>]

Bool(b) == [t |-> "bool", s |-> <<>>, n |-> IF b THEN 1 ELSE 0, keys |-> <<>>, kids |-> <<>>]

Num(i) == [t |-> "num", s |-> <<>>, n |-> i, keys |-> <<>>, kids |-> <<>>]

Str(x) == [t |-> "str", s |-> x, n |-> 0, keys |-> <<>>, kids |-> <<>>]

Arr(xs) == [t |-> "arr", s |-> <<>>, n |-> 0, keys |-> <<>>, kids |-> xs]

Obj(ks, vs) == [t |-> "obj", s |-> <<>>, n |-> 0, keys |-> ks, kids |-> vs]

EmptyObj == Obj(<<>>, <<>>)

\* Option::None of a lookup
NotFound == [t |-> "none", s |-> <<>>, n |-> 0, keys |-> <<>>, kids |-> <<>>]

IsNull(v) == v.t = "null"

IsString(v) == v.t = "str"

IsArray(v) == v.t = "arr"

IsObject(v) == v.t = "obj"

\* position of key k in object o, 0 when absent
KeyIndex(o, k) ==
    IF \E i \in 1..Len(o.keys) : o.keys[i] = k
    THEN CHOOSE i \in 1..Len(o.keys) : o.keys[i] = k
    ELSE 0

HasKey(o, k) == KeyIndex(o, k) > 0

\* Map::get
ObjGet(o, k) == IF HasKey(o, k) THEN o.kids[KeyIndex(o, k)] ELSE NotFound

\* Map::insert: an existing key keeps its position, a new key goes last
ObjInsert(o, k, v) ==
    IF HasKey(o, k)
    THEN [o EXCEPT !.kids[KeyIndex(o, k)] = v]
    ELSE [o EXCEPT !.keys = Append(o.keys, k), !.kids = Append(o.kids, v)]

\* a remove that drops the entry and every entry after it
ObjRemove_truncate(o, k) ==
    LET i == KeyIndex(o, k)
    IN  IF i = 0 THEN o
        ELSE [o EXCEPT !.keys = SubSeq(o.keys, 1, i - 1), !.kids = SubSeq(o.kids, 1, i - 1)]

\* Map::remove, which is swap_remove under preserve_order: the last entry
\* takes the place of the removed one
ObjRemove(o, k) ==
    LET i == KeyIndex(o, k)
        m == Len(o.keys)
    IN  IF i = 0 THEN o
        ELSE [o EXCEPT
                !.keys = [j \in 1..(m - 1) |-> IF j = i THEN o.keys[m] ELSE o.keys[j]],
                !.kids = [j \in 1..(m - 1) |-> IF j = i THEN o.kids[m] ELSE o.kids[j]]]

\* Vec::push
ArrPush(a, v) == [a EXCEPT !.kids = Append(a.kids, v)]

RECURSIVE NodeCount(_)
RECURSIVE SumCounts(_, _)
SumCounts(xs, i) == IF i > Len(xs) THEN 0 ELSE NodeCount(xs[i]) + SumCounts(xs, i + 1)

\* number of nodes of a tree, the root included
NodeCount(v) == 1 + SumCounts(v.kids, 1)

RECURSIVE JsonEq(_, _)
\* Value == Value: entries of objects compare without regard to their order
JsonEq(a, b) ==
    /\ a.t = b.t
    /\ a.s = b.s
    /\ a.n = b.n
    /\ Len(a.kids) = Len(b.kids)
    /\ IF a.t = "obj"
       THEN \A i \in 1..Len(a.keys) :
                /\ HasKey(b, a.keys[i])
                /\ JsonEq(a.kids[i], ObjGet(b, a.keys[i]))
       ELSE \A i \in 1..Len(a.kids) : JsonEq(a.kids[i], b.kids[i])

---------------------------------------------------------------------------
(* Text helpers *)

\* position of the first occurrence of character c in x, 0 when absent
IndexOf(x, c) ==
    IF \E i \in 1..Len(x) : x[i] = c
    THEN CHOOSE i \in 1..Len(x) : x[i] = c /\ \A j \in 1..(i - 1) : x[j] # c
    ELSE 0

Contains(x, c) == IndexOf(x, c) > 0

\* x[from..] (1-based)
Tail_(x, from) == SubSeq(x, from, Len(x))

RECURSIVE ReplaceChar(_, _, _)
\* str::replace of one character by another
ReplaceChar(x, c, d) ==
    IF x = <<>> THEN <<>>
    ELSE <<IF Head(x) = c THEN d ELSE Head(x)>> \o ReplaceChar(Tail(x), c, d)

RECURSIVE SplitOn(_, _)
\* str::split on one character: always at least one part
SplitOn(x, c) ==
    LET i == IndexOf(x, c)
    IN  IF i = 0 THEN <<x>>
        ELSE <<SubSeq(x, 1, i - 1)>> \o SplitOn(Tail_(x, i + 1), c)

---------------------------------------------------------------------------
(* DataCache: the tree *)

RECURSIVE merge_rec(_, _)
RECURSIVE merge_entries(_, _, _)
RECURSIVE insert_rec(_, _, _)

\* the loop of merge_rec over the entries of b, from entry i on
merge_entries(a, b, i) ==
    IF i > Len(b.keys) THEN a
    ELSE LET k == b.keys[i]
             v == b.kids[i]
             a2 == IF IsNull(v) THEN ObjRemove(a, k)
                   ELSE ObjInsert(a, k,
                            merge_rec(IF HasKey(a, k) THEN ObjGet(a, k) ELSE Null, v))
         IN  merge_entries(a2, b, i + 1)

\* a merge that overwrites the target whatever it is
merge_rec_overwrite(a, b) == b

merge_rec(a, b) ==
    IF IsObject(a) /\ IsObject(b) THEN merge_entries(a, b, 1) ELSE b

insert_rec(parent, path, value) ==
    LET d == IndexOf(path, ".")
    IN  IF d = 0
        THEN \* two_parts.len() == 1
             CASE IsArray(parent) ->
                    IF Len(path) = 0 THEN ArrPush(parent, value) ELSE parent
               [] IsObject(parent) ->
                    IF Len(path) > 0
                    THEN ObjInsert(parent, path,
                            merge_rec(IF HasKey(parent, path) THEN ObjGet(parent, path)
                                      ELSE EmptyObj, value))
                    ELSE parent
               [] OTHER -> parent
        ELSE LET current_key == SubSeq(path, 1, d - 1)
                 remaining_path == Tail_(path, d + 1)
             IN  IF ~IsObject(parent) THEN parent
                 ELSE IF Contains(remaining_path, ".")
                 THEN ObjInsert(parent, current_key,
                        insert_rec(IF HasKey(parent, current_key)
                                   THEN ObjGet(parent, current_key) ELSE EmptyObj,
                                   remaining_path, value))
                 ELSE IF remaining_path = <<>>
                 THEN \* build array
                      LET existing == ObjGet(parent, current_key)
                          new_array == IF IsArray(existing) THEN existing ELSE Arr(<<>>)
                      IN  ObjInsert(parent, current_key, ArrPush(new_array, value))
                 ELSE \* build object
                      LET existing == ObjGet(parent, current_key)
                          new_object == IF IsObject(existing) THEN existing ELSE EmptyObj
                          previous_value == IF HasKey(new_object, remaining_path)
                                            THEN ObjGet(new_object, remaining_path)
                                            ELSE EmptyObj
                      IN  ObjInsert(parent, current_key,
                            IF IsObject(previous_value) /\ IsObject(value)
                            THEN ObjInsert(new_object, remaining_path,
                                           merge_rec(previous_value, value))
                            ELSE ObjInsert(new_object, remaining_path, value))

---------------------------------------------------------------------------
(* DataCache::get, through serde_json's Value::pointer *)

RECURSIVE Unescape(_)
\* token.replace("~1", "/").replace("~0", "~"), done in one pass (the first
\* replace only writes "/", so it creates no "~0" for the second to read)
Unescape(x) ==
    IF Len(x) < 2 THEN x
    ELSE IF x[1] = "~" /\ x[2] = "1" THEN <<"/">> \o Unescape(Tail_(x, 3))
    ELSE IF x[1] = "~" /\ x[2] = "0" THEN <<"~">> \o Unescape(Tail_(x, 3))
    ELSE <<x[1]>> \o Unescape(Tail(x))

Digits == <<"0", "1", "2", "3", "4", "5", "6", "7", "8", "9">>

IsDigit(c) == \E i \in 1..10 : Digits[i] = c

DigitVal(c) == (CHOOSE i \in 1..10 : Digits[i] = c) - 1

RECURSIVE ParseNat(_, _)
ParseNat(x, acc) ==
    IF x = <<>> THEN acc ELSE ParseNat(Tail(x), 10 * acc + DigitVal(Head(x)))

\* serde_json parse_index: the index a token names, or -1
parse_index(x) ==
    IF x = <<>> THEN -1
    ELSE IF x[1] = "+" \/ (x[1] = "0" /\ Len(x) # 1) THEN -1
    ELSE IF \A i \in 1..Len(x) : IsDigit(x[i]) THEN ParseNat(x, 0)
    ELSE -1

RECURSIVE Resolve(_, _, _)
\* the fold of Value::pointer over the tokens, from token i on
Resolve(v, tokens, i) ==
    IF i > Len(tokens) THEN v
    ELSE LET tok == Unescape(tokens[i])
         IN  CASE IsObject(v) ->
                    IF HasKey(v, tok) THEN Resolve(ObjGet(v, tok), tokens, i + 1)
                    ELSE NotFound
               [] IsArray(v) ->
                    LET ix == parse_index(tok)
                    IN  IF ix >= 0 /\ ix < Len(v.kids)
                        THEN Resolve(v.kids[ix + 1], tokens, i + 1)
                        ELSE NotFound
               [] OTHER -> NotFound

\* Value::pointer: the pointer here always starts with "/"
pointer(v, p) ==
    IF p = <<>> THEN v
    ELSE IF p[1] # "/" THEN NotFound
    ELSE Resolve(v, SplitOn(Tail(p), "/"), 1)

get(tree, target) == pointer(tree, <<"/">> \o ReplaceChar(target, ".", "/"))

---------------------------------------------------------------------------
(* Text of scalars, as serde_json writes it *)

RECURSIVE NatText(_)
NatText(i) == IF i < 10 THEN <<Digits[i + 1]>> ELSE NatText(i \div 10) \o <<Digits[(i % 10) + 1]>>

\* Number::to_string of an integer
NumText(i) == IF i < 0 THEN <<"-">> \o NatText(-i) ELSE NatText(i)

\* bool::to_string
BoolText(n) == IF n = 1 THEN <<"t", "r", "u", "e">> ELSE <<"f", "a", "l", "s", "e">>

NullText == <<"n", "u", "l", "l">>

RECURSIVE Escape(_)
\* the content of a JSON string literal: quote, backslash and newline escaped
Escape(x) ==
    IF x = <<>> THEN <<>>
    ELSE (CASE Head(x) = "\"" -> <<"\\", "\"">>
            [] Head(x) = "\\" -> <<"\\", "\\">>
            [] Head(x) = "\n" -> <<"\\", "n">>
            [] OTHER -> <<Head(x)>>) \o Escape(Tail(x))

\* Value::String(x).to_string(): escapes and surrounding quotes
Quote(x) == <<"\"">> \o Escape(x) \o <<"\"">>

\* only the first character removed
StripEnds_first_only(x) == SubSeq(x, 2, Len(x))

\* String::remove(0) and String::remove(len - 1)
StripEnds(x) == SubSeq(x, 2, Len(x) - 1)

RECURSIVE ToJson(_)
RECURSIVE Members(_, _)
\* the members of an object or the elements of an array, comma separated,
\* from member i on
Members(v, i) ==
    IF i > Len(v.kids) THEN <<>>
    ELSE (IF i > 1 THEN <<",">> ELSE <<>>)
            \o (IF IsObject(v) THEN Quote(v.keys[i]) \o <<":">> ELSE <<>>)
            \o ToJson(v.kids[i])
            \o Members(v, i + 1)

\* serde_json::to_string: the compact JSON encoding of a value
ToJson(v) ==
    CASE v.t = "null" -> NullText
      [] v.t = "bool" -> BoolText(v.n)
      [] v.t = "num" -> NumText(v.n)
      [] v.t = "str" -> Quote(v.s)
      [] v.t = "obj" -> <<"{">> \o Members(v, 1) \o <<"}">>
      [] v.t = "arr" -> <<"[">> \o Members(v, 1) \o <<"]">>

---------------------------------------------------------------------------
(* JsonSerializer *)

\* KeyValueRange { start, end } of a path
Range(p, a, b) == [path |-> p, start |-> a, end |-> b]

\* HashMap::insert on key_values: one entry per path, the later insert wins.
\* The map is kept as a sequence in insertion order; the order of a HashMap
\* is arbitrary, and nothing below depends on it.
KvInsert(kv, e) ==
    IF \E i \in 1..Len(kv) : kv[i].path = e.path
    THEN [i \in 1..Len(kv) |-> IF kv[i].path = e.path THEN e ELSE kv[i]]
    ELSE Append(kv, e)

KvHas(kv, p) == \E i \in 1..Len(kv) : kv[i].path = p

KvGet(kv, p) == kv[CHOOSE i \in 1..Len(kv) : kv[i].path = p]

\* &data[range.start..range.end]
Slice(data, a, b) == SubSeq(data, a + 1, b)

\* JsonLength { inner, outer }
JsonLength(i, o) == [inner |-> i, outer |-> o]

\* usize subtraction a - b.  With overflow checks (a debug build) a negative
\* result panics; without them it wraps, and the wrapped value a - b + 2^w is
\* written here as the negative number a - b
USubPanics(a, b, checks) == checks /\ a < b

\* The two outputs under construction: serialized (data, kv) and, when dbl,
\* double_serialized (ddata, dkv)
SerState(dbl) ==
    [data |-> <<>>, kv |-> <<>>, ddata |-> <<>>, dkv |-> <<>>, dbl |-> dbl, panic |-> FALSE]

\* a range that keeps the quotes of a string
child_range_with_quotes(path, index, starting_position, current_length, len, q) ==
    Range(path, index + starting_position, index + current_length)

\* a range that strips q bytes on each side of every child, string or not
child_range_always_strips(path, index, starting_position, current_length, len, q) ==
    Range(path, index + starting_position + q, index + current_length - q)

\* the range of a child whose serialized length is len and which starts at
\* starting_position inside its container; q is 1 (single) or 2 (double):
\* the bytes a string's quote takes on each side
child_range(path, index, starting_position, current_length, len, q) ==
    IF len.inner # len.outer
    THEN Range(path, index + starting_position + q, index + current_length - q)
    ELSE Range(path, index + starting_position, index + current_length)

RECURSIVE rec_serialize(_, _, _, _, _, _)
RECURSIVE object_loop(_, _, _, _, _, _, _, _, _)
RECURSIVE array_loop(_, _, _, _, _, _, _, _, _)

\* the for loop of the Value::Object arm, from entry i on; cur and dcur are
\* serialized_current_map_length and double_serialized_current_map_length
object_loop(map, i, path, S, sidx, didx, cur, dcur, checks) ==
    IF i > Len(map.keys) THEN [S |-> S, cur |-> cur, dcur |-> dcur]
    ELSE
    LET key == map.keys[i]
        path1 == (IF path # <<>> THEN path \o <<".">> ELSE path) \o key
        key_serialized == Quote(key)
        key_double_serialized == StripEnds(Quote(key_serialized))
        comma == IF i > 1 THEN <<",">> ELSE <<>>
        cur1 == cur + Len(comma) + Len(key_serialized) + 1
        dcur1 == IF S.dbl THEN dcur + Len(comma) + Len(key_double_serialized) + 1 ELSE dcur
        S1 == [S EXCEPT
                !.data = @ \o comma \o key_serialized \o <<":">>,
                !.ddata = IF S.dbl THEN @ \o comma \o key_double_serialized \o <<":">> ELSE @]
        child == rec_serialize(map.kids[i], path1, S1, sidx + cur1, didx + dcur1, checks)
        cur2 == cur1 + child.len.outer
        dcur2 == IF S.dbl THEN dcur1 + child.dlen.outer ELSE dcur1
        S2 == [child.S EXCEPT
                !.kv = KvInsert(@, child_range(path1, sidx, cur1, cur2, child.len, 1)),
                !.dkv = IF S.dbl
                        THEN KvInsert(@, child_range(path1, didx, dcur1, dcur2, child.dlen, 2))
                        ELSE @]
    IN  object_loop(map, i + 1, path, S2, sidx, didx, cur2, dcur2, checks)

\* the for loop of the Value::Array arm, from element i on
array_loop(values, i, path, S, sidx, didx, cur, dcur, checks) ==
    IF i > Len(values.kids) THEN [S |-> S, cur |-> cur, dcur |-> dcur]
    ELSE
    LET path1 == (IF path # <<>> THEN path \o <<".">> ELSE path) \o NatText(i - 1)
        comma == IF i > 1 THEN <<",">> ELSE <<>>
        cur1 == cur + Len(comma)
        dcur1 == IF S.dbl THEN dcur + Len(comma) ELSE dcur
        S1 == [S EXCEPT
                !.data = @ \o comma,
                !.ddata = IF S.dbl THEN @ \o comma ELSE @]
        child == rec_serialize(values.kids[i], path1, S1, sidx + cur1, didx + dcur1, checks)
        cur2 == cur1 + child.len.outer
        dcur2 == IF S.dbl THEN dcur1 + child.dlen.outer ELSE dcur1
        S2 == [child.S EXCEPT
                !.kv = KvInsert(@, child_range(path1, sidx, cur1, cur2, child.len, 1)),
                !.dkv = IF S.dbl
                        THEN KvInsert(@, child_range(path1, didx, dcur1, dcur2, child.dlen, 2))
                        ELSE @]
    IN  array_loop(values, i + 1, path, S2, sidx, didx, cur2, dcur2, checks)

\* a scalar whose text is the same in both outputs
scalar_arm(S, ret) ==
    [S |-> [S EXCEPT !.data = @ \o ret, !.ddata = IF S.dbl THEN @ \o ret ELSE @],
     len |-> JsonLength(Len(ret), Len(ret)),
     dlen |-> JsonLength(Len(ret), Len(ret))]

rec_serialize(value, path, S, serialized_index, double_serialized_index, checks) ==
    CASE value.t = "null" -> scalar_arm(S, NullText)
      [] value.t = "bool" -> scalar_arm(S, BoolText(value.n))
      [] value.t = "num" -> scalar_arm(S, NumText(value.n))
      [] value.t = "str" ->
            LET ret == Quote(value.s)
                double_serialized_data == StripEnds(Quote(ret))
                len == Len(ret)
                double_serialized_len == IF S.dbl THEN Len(double_serialized_data) ELSE 0
            IN  [S |-> [S EXCEPT
                        !.data = @ \o ret,
                        !.ddata = IF S.dbl THEN @ \o double_serialized_data ELSE @,
                        !.panic = @ \/ USubPanics(double_serialized_len, 2, checks)],
                 len |-> JsonLength(len - 2, len),
                 dlen |-> JsonLength(double_serialized_len - 2, double_serialized_len)]
      [] value.t = "obj" ->
            LET S1 == [S EXCEPT !.data = @ \o <<"{">>,
                                !.ddata = IF S.dbl THEN @ \o <<"{">> ELSE @]
                r == object_loop(value, 1, path, S1, serialized_index,
                                 double_serialized_index, 1, 1, checks)
            IN  [S |-> [r.S EXCEPT !.data = @ \o <<"}">>,
                                   !.ddata = IF S.dbl THEN @ \o <<"}">> ELSE @],
                 len |-> JsonLength(r.cur + 1, r.cur + 1),
                 dlen |-> JsonLength(r.dcur + 1, r.dcur + 1)]
      [] value.t = "arr" ->
            LET S1 == [S EXCEPT !.data = @ \o <<"[">>,
                                !.ddata = IF S.dbl THEN @ \o <<"[">> ELSE @]
                r == array_loop(value, 1, path, S1, serialized_index,
                                double_serialized_index, 1, 1, checks)
            IN  [S |-> [r.S EXCEPT !.data = @ \o <<"]">>,
                                   !.ddata = IF S.dbl THEN @ \o <<"]">> ELSE @],
                 len |-> JsonLength(r.cur + 1, r.cur + 1),
                 dlen |-> JsonLength(IF S.dbl THEN r.dcur + 1 ELSE r.dcur,
                                     IF S.dbl THEN r.dcur + 1 ELSE r.dcur)]

\* SerializedWithKeys { data, key_values }; its length field is never written
SerializedWithKeys(data, kv) == [some |-> TRUE, data |-> data, key_values |-> kv]

\* Option::None of a SerializedWithKeys
NoSerialized == [some |-> FALSE, data |-> <<>>, key_values |-> <<>>]

\* JsonSerializer::serialize.  checks: the build has integer overflow checks
serialize(value, double_serialize, checks) ==
    LET r == rec_serialize(value, <<>>, SerState(double_serialize), 0, 0, checks)
    IN  [done |-> FALSE,
         dbl |-> double_serialize,
         panicked |-> r.S.panic,
         serialized |-> SerializedWithKeys(r.S.data, r.S.kv),
         double_serialized |-> IF double_serialize
                               THEN SerializedWithKeys(r.S.ddata, r.S.dkv)
                               ELSE NoSerialized]

---------------------------------------------------------------------------
(* DataCache: the cached generation and the substitution *)

\* DataCacheSerializedData::default()
DefaultSerializedData ==
    [is_built |-> FALSE,
     ac |-> [some |-> FALSE, patterns |-> <<>>],
     serialized |-> NoSerialized,
     double_serialized |-> NoSerialized,
     replacements |-> <<>>]

\* one format for both indexes
formatted_key_one_dollar(key, q) == <<"{", "$">> \o key \o <<"}">>

\* format!("{{${key}}}") for q = 1 and format!("{{$${key}}}") for q = 2
formatted_key(key, q) ==
    <<"{">> \o (IF q = 2 THEN <<"$", "$">> ELSE <<"$">>) \o key \o <<"}">>

\* the patterns pushed for one SerializedWithKeys, in the order of its entries
patterns_of(sk, q) == [i \in 1..Len(sk.key_values) |-> formatted_key(sk.key_values[i].path, q)]

\* the replacements pushed for one SerializedWithKeys
replacements_of(sk) ==
    [i \in 1..Len(sk.key_values) |->
        Slice(sk.data, sk.key_values[i].start, sk.key_values[i].end)]

\* the rebuild of replace_with_data_cache when the generation is not built
build(tree) ==
    LET r == serialize(tree, TRUE, FALSE)
    IN  [is_built |-> TRUE,
         ac |-> [some |-> TRUE,
                 patterns |-> patterns_of(r.serialized, 1) \o patterns_of(r.double_serialized, 2)],
         serialized |-> r.serialized,
         double_serialized |-> r.double_serialized,
         replacements |-> replacements_of(r.serialized) \o replacements_of(r.double_serialized)]

IsSuffix(p, x) == Len(p) <= Len(x) /\ SubSeq(x, Len(x) - Len(p) + 1, Len(x)) = p

\* The pattern an Aho-Corasick automaton of MatchKind::Standard reports after
\* reading text x from its start state, 0 when it is in no match state: the
\* patterns that end here are suffixes of one another, the state lists its
\* own (the longest) first, and of equal patterns the one added first
match_at(patterns, x) ==
    LET M == {k \in 1..Len(patterns) : IsSuffix(patterns[k], x)}
    IN  IF M = {} THEN 0
        ELSE CHOOSE k \in M :
                \A j \in M : \/ Len(patterns[j]) < Len(patterns[k])
                             \/ (Len(patterns[j]) = Len(patterns[k]) /\ k <= j)

RECURSIVE stream_replace_all(_, _, _, _, _)
\* AhoCorasick::try_stream_replace_all: the automaton reads the input byte
\* by byte; at the first byte where a pattern ends the bytes before the match
\* are written as they are, then the replacement, and the automaton starts
\* again after the match.  from: first input position not yet written,
\* i: position being read
stream_replace_all(patterns, replace_with, input, from, i) ==
    IF i > Len(input) THEN SubSeq(input, from, Len(input))
    ELSE LET k == match_at(patterns, SubSeq(input, from, i))
         IN  IF k = 0 THEN stream_replace_all(patterns, replace_with, input, from, i + 1)
             ELSE SubSeq(input, from, i - Len(patterns[k]))
                    \o replace_with[k]
                    \o stream_replace_all(patterns, replace_with, input, i + 1, i + 1)

---------------------------------------------------------------------------
(* Regex, as match_regex uses it.  A pattern applied to a source is given  *)
(* by what the regex crate reports for it: whether the pattern compiles,   *)
(* whether it matches, and its groups in the order of capture_names();     *)
(* named: the group has a name, hit: the group took part in the match,     *)
(* text: what it captured.                                                 *)

Group(name, named, hit, text) == [name |-> name, named |-> named, hit |-> hit, text |-> text]

Rx(valid, matched, groups) == [valid |-> valid, matched |-> matched, groups |-> groups]

RECURSIVE capture_loop(_, _, _, _, _)
\* the for loop of match_regex over capture_names(), from group i on;
\* inserted: self.insert has been called
capture_loop(tree, groups, i, reserved, inserted) ==
    IF i > Len(groups) THEN [root |-> tree, result |-> "Ok(true)", inserted |-> inserted]
    ELSE LET g == groups[i]
         IN  IF ~g.named THEN capture_loop(tree, groups, i + 1, reserved, inserted)
             ELSE IF g.name \in reserved
             THEN [root |-> tree, result |-> "Err(reserved)", inserted |-> inserted]
             ELSE IF g.hit
             THEN capture_loop(insert_rec(tree, g.name, Str(g.text)), groups, i + 1,
                               reserved, TRUE)
             ELSE capture_loop(tree, groups, i + 1, reserved, inserted)

match_regex(tree, rx, reserved) ==
    IF ~rx.valid THEN [root |-> tree, result |-> "Err(invalid)", inserted |-> FALSE]
    ELSE IF ~rx.matched THEN [root |-> tree, result |-> "Ok(false)", inserted |-> FALSE]
    ELSE capture_loop(tree, rx.groups, 1, reserved, FALSE)

RECURSIVE insert_all(_, _, _)
\* the for loop of insert_bulk, from pair i on
insert_all(tree, values, i) ==
    IF i > Len(values) THEN tree
    ELSE insert_all(insert_rec(tree, values[i].path, values[i].value), values, i + 1)

\* build_prefix of as_string_values_map_rec
build_prefix(path) == IF Len(path) > 0 THEN path \o <<".">> ELSE <<>>

\* HashMap::insert on the map of as_string_values_map: one entry per path,
\* the later insert wins
MapInsert(map, path, text) == KvInsert(map, [path |-> path, text |-> text])

RECURSIVE as_string_values_map_rec(_, _, _)
RECURSIVE as_string_children(_, _, _, _)
\* the for loop of the Array and Object arms, from member i on
as_string_children(map, parent, current_path, i) ==
    IF i > Len(parent.kids) THEN map
    ELSE as_string_children(
            as_string_values_map_rec(map, parent.kids[i],
                build_prefix(current_path)
                    \o (IF IsArray(parent) THEN NatText(i - 1) ELSE parent.keys[i])),
            parent, current_path, i + 1)

as_string_values_map_rec(map, parent, current_path) ==
    CASE parent.t = "arr" ->
            MapInsert(as_string_children(map, parent, current_path, 1),
                      current_path, ToJson(parent))
      [] parent.t = "obj" ->
            IF Len(current_path) > 0
            THEN MapInsert(as_string_children(map, parent, current_path, 1),
                           current_path, ToJson(parent))
            ELSE as_string_children(map, parent, current_path, 1)
      [] parent.t = "str" -> MapInsert(map, current_path, parent.s)
      [] parent.t = "num" -> MapInsert(map, current_path, NumText(parent.n))
      [] parent.t = "bool" -> MapInsert(map, current_path, BoolText(parent.n))
      [] parent.t = "null" -> MapInsert(map, current_path, NullText)

as_string_values_map(tree) == as_string_values_map_rec(<<>>, tree, <<>>)

---------------------------------------------------------------------------
(* Inputs of the operations *)

\* DataCacheOptions::reserved_cache_top_level_names of the cache under study
Reserved == {<<"r">>}

\* the paths, values and patterns of the full cache (Spec)
InsertPaths == {<<"a">>, <<"$", "a">>}

InsertValues == {Str(<<"\"">>), Obj(<<<<"b">>>>, <<Num(1)>>)}

MergeValues ==
    {Obj(<<<<"a">>>>, <<Str(<<"w">>)>>),
     Arr(<<Str(<<"v">>)>>),
     Str(<<"v">>)}

BulkValues ==
    {<<[path |-> <<"a", ".">>, value |-> Str(<<"v">>)],
       [path |-> <<"a", ".">>, value |-> Str(<<"w">>)]>>}

Regexes ==
    {Rx(FALSE, FALSE, <<>>),
     Rx(TRUE, FALSE, <<Group(<<>>, FALSE, FALSE, <<>>), Group(<<"a">>, TRUE, FALSE, <<>>)>>),
     Rx(TRUE, TRUE, <<Group(<<>>, FALSE, TRUE, <<"w">>),
                      Group(<<"r", ".", "x">>, TRUE, TRUE, <<"w">>)>>),
     Rx(TRUE, TRUE, <<Group(<<>>, FALSE, TRUE, <<"w">>),
                      Group(<<"a">>, TRUE, TRUE, <<"w">>),
                      Group(<<"r">>, TRUE, TRUE, <<"w">>)>>),
     Rx(TRUE, TRUE, <<Group(<<>>, FALSE, TRUE, <<"w">>),
                      Group(<<"a">>, TRUE, TRUE, <<"w">>),
                      Group(<<"r">>, TRUE, FALSE, <<>>)>>)}

ReplaceInputs ==
    {<<"x", "{", "$", "a", "}", "{", "$", "$", "a", "}", "y">>,
     <<"{", "$", "a", "{", "$", "a", ".", "b", "}">>,
     <<"{", "$", "z", "}", "x">>}

\* the paths and values of the tree operations alone (SpecTree)
TreePaths ==
    {<<"a">>, <<"a", ".", "b">>, <<"a", ".", "b", ".", "c">>,
     <<"a", ".">>, <<"a", ".", "b", ".">>, <<"k", "/", "x">>}

TreeValues ==
    {Str(<<"v">>), Null, Obj(<<<<"c">>>>, <<Str(<<"w">>)>>), Obj(<<<<"d">>>>, <<Null>>)}

TreeMerges ==
    {Obj(<<<<"a">>>>, <<Null>>),
     Obj(<<<<"a">>>>, <<Obj(<<<<"b">>>>, <<Null>>)>>),
     Obj(<<<<"a">>>>, <<Obj(<<<<"b">>>>, <<Obj(<<<<"e">>>>, <<Num(1)>>)>>)>>),
     Obj(<<<<"a">>>>, <<Obj(<<<<"b">>, <<"m">>>>, <<Obj(<<<<"c">>>>, <<Null>>), Str(<<"w">>)>>)>>),
     Arr(<<Str(<<"v">>)>>),
     Str(<<"v">>)}

TreeBulks ==
    {<<[path |-> <<"a", ".", "b", ".", "c">>, value |-> Str(<<"v">>)],
       [path |-> <<"a", ".", "b">>, value |-> Obj(<<<<"d">>>>, <<Str(<<"w">>)>>)]>>,
     <<[path |-> <<"a", ".">>, value |-> Str(<<"v">>)],
       [path |-> <<"a", ".">>, value |-> Str(<<"w">>)]>>,
     <<>>}

\* paths and trees whose keys are not plain names (SpecKeyed): a numeric
\* segment, an empty segment, a key that holds a dot
KeyedPaths == {<<"a">>, <<"a", ".">>, <<"a", ".", "0">>, <<".">>}

KeyedValues == {Str(<<"v">>), Null, Obj(<<<<"0">>>>, <<Str(<<"w">>)>>)}

KeyedMerges ==
    {Obj(<<<<"a", ".", "b">>, <<"a">>>>, <<Str(<<"v">>), Obj(<<<<"b">>>>, <<Str(<<"w">>)>>)>>),
     Obj(<<<<>>>>, <<Str(<<"v">>)>>),
     Obj(<<<<"a">>>>, <<Null>>)}

---------------------------------------------------------------------------
(* The state machine of one DataCache *)

NoOp ==
    [op |-> "new", path |-> <<>>, value |-> Null, values |-> <<>>, rx |-> Rx(FALSE, FALSE, <<>>),
     input |-> <<>>, pre |-> EmptyObj, was_built |-> FALSE]

NoSer == [done |-> FALSE, dbl |-> FALSE, panicked |-> FALSE, serialized |-> NoSerialized,
          double_serialized |-> NoSerialized]

\* DataCache::new
Init ==
    /\ root = EmptyObj
    /\ sd = DefaultSerializedData
    /\ out = <<>>
    /\ res = "new"
    /\ last = NoOp
    /\ ser = NoSer

\* on_after_insert
on_after_insert == DefaultSerializedData

Insert(path, value) ==
    /\ root' = insert_rec(root, path, value)
    /\ NodeCount(root') <= MaxNodes
    /\ sd' = on_after_insert
    /\ res' = "()"
    /\ last' = [NoOp EXCEPT !.op = "insert", !.path = path, !.value = value,
                            !.pre = root, !.was_built = sd.is_built]
    /\ UNCHANGED <<out, ser>>

InsertBulk(values) ==
    /\ root' = insert_all(root, values, 1)
    /\ NodeCount(root') <= MaxNodes
    /\ sd' = on_after_insert
    /\ res' = "()"
    /\ last' = [NoOp EXCEPT !.op = "insert_bulk", !.values = values,
                            !.pre = root, !.was_built = sd.is_built]
    /\ UNCHANGED <<out, ser>>

Merge(other) ==
    /\ root' = merge_rec(root, other)
    /\ NodeCount(root') <= MaxNodes
    /\ res' = "()"
    /\ last' = [NoOp EXCEPT !.op = "merge", !.value = other,
                            !.pre = root, !.was_built = sd.is_built]
    /\ UNCHANGED <<sd, out, ser>>

MatchRegex(rx) ==
    LET r == match_regex(root, rx, Reserved)
    IN  /\ root' = r.root
        /\ NodeCount(root') <= MaxNodes
        /\ sd' = IF r.inserted THEN on_after_insert ELSE sd
        /\ res' = r.result
        /\ last' = [NoOp EXCEPT !.op = "match_regex", !.rx = rx,
                                !.pre = root, !.was_built = sd.is_built]
        /\ UNCHANGED <<out, ser>>

Replace(input) ==
    /\ sd' = IF sd.is_built THEN sd ELSE build(root)
    /\ out' = stream_replace_all(sd'.ac.patterns, sd'.replacements, input, 1, 1)
    /\ res' = "Ok(())"
    /\ last' = [NoOp EXCEPT !.op = "replace", !.input = input,
                            !.pre = root, !.was_built = sd.is_built]
    /\ UNCHANGED <<root, ser>>

\* replace_with_data_cache when AhoCorasick::new(patterns)? returns an error
\* (the automaton outgrows what the library can number; the size at which it
\* does is not modelled, the outcome of the call is a choice): the function
\* returns after serialized and double_serialized were assigned and before
\* ac, replacements and is_built are; nothing is written
ReplaceBuildFails(input) ==
    /\ ~sd.is_built
    /\ sd' = [sd EXCEPT !.serialized = serialize(root, TRUE, FALSE).serialized,
                        !.double_serialized = serialize(root, TRUE, FALSE).double_serialized]
    /\ out' = <<>>
    /\ res' = "Err(BuildError)"
    /\ last' = [NoOp EXCEPT !.op = "replace_failed", !.input = input,
                            !.pre = root, !.was_built = sd.is_built]
    /\ UNCHANGED <<root, ser>>

Next ==
    \/ \E path \in InsertPaths, value \in InsertValues : Insert(path, value)
    \/ \E values \in BulkValues : InsertBulk(values)
    \/ \E other \in MergeValues : Merge(other)
    \/ \E rx \in Regexes : MatchRegex(rx)
    \/ \E input \in ReplaceInputs : Replace(input)
    \/ \E input \in ReplaceInputs : ReplaceBuildFails(input)

Spec == Init /\ [][Next]_vars

\* the trees JsonSerializer::serialize is applied to: every tree of at most
\* SerNodes nodes over these leaves and keys
SerLeaves == {Null, Bool(FALSE), Num(12), Str(<<>>), Str(<<"v", "\"", "\\">>)}

SerKeys == {<<"a">>, <<"\"">>}

DistinctKeys(m) == {ks \in [1..m -> SerKeys] : \A i, j \in 1..m : i # j => ks[i] # ks[j]}

\* the containers whose members are the trees of the sequence f
Containers(f) == {Arr(f)} \cup {Obj(ks, f) : ks \in DistinctKeys(Len(f))}

RECURSIVE TreesOfSize(_)
RECURSIVE Forests(_)
\* the sequences of trees that have n nodes in all
Forests(n) ==
    IF n = 0 THEN {<<>>}
    ELSE UNION {{<<t>> \o f : t \in TreesOfSize(k), f \in Forests(n - k)} : k \in 1..n}

TreesOfSize(n) ==
    (IF n = 1 THEN SerLeaves ELSE {}) \cup UNION {Containers(f) : f \in Forests(n - 1)}

SerTrees(max) == UNION {TreesOfSize(n) : n \in 1..max}

\* a fresh tree handed to the serializer
InitSer ==
    /\ root \in SerTrees(SerNodes)
    /\ sd = DefaultSerializedData
    /\ out = <<>>
    /\ res = "new"
    /\ last = NoOp
    /\ ser = NoSer

\* JsonSerializer::serialize(&root, double_serialize) in a build with
\* (checks) or without integer overflow checks
Serialize(double_serialize, checks) ==
    /\ ~ser.done
    /\ ser' = [serialize(root, double_serialize, checks) EXCEPT !.done = TRUE]
    /\ UNCHANGED <<root, sd, out, res, last>>

NextSer == \E double_serialize \in BOOLEAN, checks \in BOOLEAN : Serialize(double_serialize, checks)

SpecSer == InitSer /\ [][NextSer]_vars

\* the tree operations alone
NextTree ==
    \/ \E path \in TreePaths, value \in TreeValues : Insert(path, value)
    \/ \E values \in TreeBulks : InsertBulk(values)
    \/ \E other \in TreeMerges : Merge(other)

SpecTree == Init /\ [][NextTree]_vars

\* the tree operations on paths and keys that are not plain names
NextKeyed ==
    \/ \E path \in KeyedPaths, value \in KeyedValues : Insert(path, value)
    \/ \E other \in KeyedMerges : Merge(other)

SpecKeyed == Init /\ [][NextKeyed]_vars

---------------------------------------------------------------------------
(* Vocabulary of the properties *)

Segments(path) == SplitOn(path, ".")

RECURSIVE Walk(_, _, _)
\* the node reached from v through the object keys segs[i..], NotFound when
\* a key is missing or a node on the way is not an object
Walk(v, segs, i) ==
    IF i > Len(segs) THEN v
    ELSE IF IsObject(v) /\ HasKey(v, segs[i]) THEN Walk(ObjGet(v, segs[i]), segs, i + 1)
    ELSE NotFound

\* the node of tree at the top-level key k, NotFound when there is none
TopLevel(tree, k) == IF IsObject(tree) THEN ObjGet(tree, k) ELSE NotFound

\* what a substitution of input writes when the generation is built from tree
FreshOutput(tree, input) ==
    stream_replace_all(build(tree).ac.patterns, build(tree).replacements, input, 1, 1)

---------------------------------------------------------------------------
(* C1 *)

\* C1: every replace_with_data_cache call writes what a substitution built
\* from the tree as it is at the time of the call writes: no bytes serialized
\* before a mutation (insert, insert_bulk, merge, capturing match_regex) are
\* written after it.
C1_OutputReflectsTree ==
    last.op = "replace" => out = FreshOutput(root, last.input)

---------------------------------------------------------------------------
(* C2 *)

\* C2: in every reachable state the root of the tree is a JSON object.
C2_RootIsObject == IsObject(root)

---------------------------------------------------------------------------
(* C10 *)

\* C10: after match_regex returns, with success or failure, the node at every
\* reserved top-level name is what it was before the call.
C10_ReservedUntouched ==
    last.op = "match_regex" =>
        \A r \in Reserved : TopLevel(root, r) = TopLevel(last.pre, r)

---------------------------------------------------------------------------
(* C3 *)

\* the path of the member named seg of the node at path
Join(path, seg) == (IF path # <<>> THEN path \o <<".">> ELSE path) \o seg

RECURSIVE PathNodes(_, _)
\* the nodes below v, each with its path: keys and decimal indices joined by
\* dots, v itself being at path
PathNodes(v, path) ==
    IF IsObject(v) \/ IsArray(v)
    THEN UNION {LET p == Join(path, IF IsObject(v) THEN v.keys[i] ELSE NatText(i - 1))
                IN  {[path |-> p, node |-> v.kids[i]]} \cup PathNodes(v.kids[i], p)
                : i \in 1..Len(v.kids)}
    ELSE {}

\* every range of the single-escaped index holds enc of a node at its path
SlicesAre(enc(_)) ==
    (ser.done /\ ~ser.panicked) =>
        \A i \in 1..Len(ser.serialized.key_values) :
            LET e == ser.serialized.key_values[i]
            IN  \E pn \in PathNodes(root, <<>>) :
                    /\ pn.path = e.path
                    /\ Slice(ser.serialized.data, e.start, e.end) = enc(pn.node)

EscapedOrJson(node) == IF IsString(node) THEN Escape(node.s) ELSE ToJson(node)

RawOrJson(node) == IF IsString(node) THEN node.s ELSE ToJson(node)

\* C3 (as amended): for every path recorded in the single-escaped index of
\* serialize, the bytes of the buffer at the recorded range are the compact
\* JSON encoding of the node at that path when the node is a null, bool,
\* number, object or array, and the JSON-escaped string content, without the
\* surrounding quotes, when the node is a string.
C3_SliceIsEscapedContent == SlicesAre(EscapedOrJson)

\* C3 (as stated): the slice of a string node is its raw, unescaped content,
\* also for a string that holds a double quote or a backslash.
C3_SliceIsRawContent == SlicesAre(RawOrJson)

\* the index records a string that needs escaping, inside a container that
\* is recorded as well
C3_Witness ==
    /\ ser.done /\ ~ser.panicked
    /\ \E i, j \in 1..Len(ser.serialized.key_values) :
          LET e == ser.serialized.key_values[i]
              c == ser.serialized.key_values[j]
          IN  \E pn, pc \in PathNodes(root, <<>>) :
                /\ pn.path = e.path /\ IsString(pn.node)
                /\ Escape(pn.node.s) # pn.node.s
                /\ Slice(ser.serialized.data, e.start, e.end) = Escape(pn.node.s)
                /\ pc.path = c.path /\ (IsObject(pc.node) \/ IsArray(pc.node))
                /\ pn \in PathNodes(pc.node, pc.path)
                /\ Slice(ser.serialized.data, c.start, c.end) = ToJson(pc.node)

---------------------------------------------------------------------------
(* C4 *)

\* the placeholder of path p: q is 1 for the single-escaped index and 2 for
\* the double-escaped one
Placeholder(p, q) == <<"{">> \o [k \in 1..q |-> "$"] \o p \o <<"}">>

Occurs(input, i, pat) ==
    i + Len(pat) - 1 <= Len(input) /\ SubSeq(input, i, i + Len(pat) - 1) = pat

\* the placeholders of the paths recorded in sk that occur at position i of
\* input, each with its length and the slice of its path
Candidates(sk, q, input, i) ==
    {[len |-> Len(Placeholder(sk.key_values[k].path, q)),
      rep |-> Slice(sk.data, sk.key_values[k].start, sk.key_values[k].end)]
        : k \in {k \in 1..Len(sk.key_values) :
                    Occurs(input, i, Placeholder(sk.key_values[k].path, q))}}

RECURSIVE Substituted(_, _, _)
\* what the input from position i on may become when every leftmost
\* occurrence of a placeholder of a recorded path is replaced by the slice of
\* that path and every other byte is kept
Substituted(g, input, i) ==
    IF i > Len(input) THEN {<<>>}
    ELSE LET C == Candidates(g.serialized, 1, input, i)
                    \cup Candidates(g.double_serialized, 2, input, i)
         IN  IF C = {}
             THEN {<<input[i]>> \o r : r \in Substituted(g, input, i + 1)}
             ELSE UNION {{c.rep \o r : r \in Substituted(g, input, i + c.len)} : c \in C}

Paths(sk) == {sk.key_values[k].path : k \in 1..Len(sk.key_values)}

\* no two placeholders of recorded paths can occur at overlapping places: no
\* recorded path holds a brace, and no path of the single-escaped index is
\* "$" followed by a path of the double-escaped index
Unambiguous(g) ==
    /\ \A p \in Paths(g.serialized) \cup Paths(g.double_serialized) :
          \A k \in 1..Len(p) : p[k] \notin {"{", "}"}
    /\ \A p \in Paths(g.double_serialized) : (<<"$">> \o p) \notin Paths(g.serialized)

\* C4 (as amended): when no recorded path holds '{' or '}' and no path of the
\* single-escaped index is '$' followed by a path of the double-escaped
\* index, replace_with_data_cache writes the input with every leftmost
\* occurrence of {$p} replaced by the single-escaped slice of p and of {$$p}
\* by the double-escaped slice of p, and every other byte unchanged, in order.
C4_ReplacesPlaceholders ==
    (last.op = "replace" /\ Unambiguous(sd)) => Substituted(sd, last.input, 1) = {out}

\* C4 (as stated): the same for every tree, whatever its keys.
C4_ReplacesPlaceholdersAnyKeys ==
    last.op = "replace" => Substituted(sd, last.input, 1) = {out}

\* an input with both placeholders of one path was written with two different
\* slices in their places
C4_Witness ==
    /\ last.op = "replace" /\ Unambiguous(sd)
    /\ KvHas(sd.serialized.key_values, <<"a">>)
    /\ KvHas(sd.double_serialized.key_values, <<"a">>)
    /\ LET e == KvGet(sd.serialized.key_values, <<"a">>)
           d == KvGet(sd.double_serialized.key_values, <<"a">>)
           single == Slice(sd.serialized.data, e.start, e.end)
           double == Slice(sd.double_serialized.data, d.start, d.end)
       IN  /\ single # double
           /\ last.input = <<"x">> \o Placeholder(<<"a">>, 1) \o Placeholder(<<"a">>, 2) \o <<"y">>
           /\ out = <<"x">> \o single \o double \o <<"y">>

---------------------------------------------------------------------------
(* C5 *)

TrailingDot(path) == Len(path) >= 1 /\ path[Len(path)] = "."

\* every segment of the path is a key (none is empty)
PlainPath(path) == \A i \in 1..Len(Segments(path)) : Segments(path)[i] # <<>>

RECURSIVE Kept(_, _, _)
\* new keeps what a deep merge of the object val into the object old must
\* keep: every key of old that val does not name, with its value, at every
\* depth where an object of old meets an object of val
Kept(old, val, new) ==
    /\ IsObject(new)
    /\ \A i \in 1..Len(old.keys) :
          LET k == old.keys[i]
          IN  IF ~HasKey(val, k)
              THEN HasKey(new, k) /\ ObjGet(new, k) = old.kids[i]
              ELSE (IsObject(old.kids[i]) /\ IsObject(ObjGet(val, k)))
                        => (HasKey(new, k) /\ Kept(old.kids[i], ObjGet(val, k), ObjGet(new, k)))

\* the last call is insert(path, value) on a path of keys whose final segment
\* held a node before the call
InsertOnExisting ==
    /\ last.op = "insert"
    /\ PlainPath(last.path)
    /\ Walk(last.pre, Segments(last.path), 1) # NotFound

---------------------------------------------------------------------------
(* C6 *)

\* the path without its last character
Chop(path) == SubSeq(path, 1, Len(path) - 1)

\* every node that the segments segs[1..m] name in tree, one after the other,
\* is absent or an object
AbsentOrObjects(tree, segs, m) ==
    \A j \in 1..m :
        LET node == Walk(tree, SubSeq(segs, 1, j), 1)
        IN  node = NotFound \/ IsObject(node)

\* the last call is insert(p + ".", value) with the intermediate segments of
\* p absent or objects
AppendInsert ==
    /\ last.op = "insert"
    /\ TrailingDot(last.path)
    /\ PlainPath(Chop(last.path))
    /\ AbsentOrObjects(last.pre, Segments(Chop(last.path)), Len(Segments(Chop(last.path))) - 1)

\* C6: insert(p + ".", value) leaves at p the array of the elements that an
\* array at p held before the call (none when p was absent or no array)
\* followed by value; get(p) is that array, get(p.i) its element i for every
\* index i of it, and get(p.n), n its length, is not found.  By induction n
\* such calls from no array leave [v1..vn] in call order.
C6_TrailingDotAppends ==
    AppendInsert =>
        LET p == Chop(last.path)
            before == Walk(last.pre, Segments(p), 1)
            elems == IF IsArray(before) THEN before.kids ELSE <<>>
            n == Len(elems) + 1
        IN  /\ get(root, p) = Arr(Append(elems, last.value))
            /\ \A i \in 0..(n - 1) :
                  get(root, p \o <<".">> \o NatText(i)) = Append(elems, last.value)[i + 1]
            /\ get(root, p \o <<".">> \o NatText(n)) = NotFound

---------------------------------------------------------------------------
(* C7 *)

RECURSIVE NullsAbsent(_, _)
\* no key that the object other gives as null, at any depth, is a key of the
\* node of post at the same place
NullsAbsent(other, post) ==
    IsObject(other) =>
        \A i \in 1..Len(other.keys) :
            LET k == other.keys[i]
            IN  IF IsNull(other.kids[i])
                THEN ~(IsObject(post) /\ HasKey(post, k))
                ELSE NullsAbsent(other.kids[i],
                                 IF IsObject(post) THEN ObjGet(post, k) ELSE NotFound)

\* C7: after merge(other) every path that other gives as null is absent from
\* the tree, at every depth and whatever the tree held there.
C7_NullDeletes ==
    last.op = "merge" => NullsAbsent(last.value, root)

---------------------------------------------------------------------------
(* C8 *)

\* C8: merge(other) keeps, in every object of the tree that meets an object
\* of other at the same path (the roots first), every key that the object of
\* other does not name, with its value.
C8_MergeKeepsOtherKeys ==
    (last.op = "merge" /\ IsObject(last.pre) /\ IsObject(last.value)) =>
        Kept(last.pre, last.value, root)

\* a merge two levels down added a key to an object that kept a key of its own
C8_Witness ==
    /\ last.op = "merge"
    /\ IsObject(last.pre) /\ IsObject(last.value)
    /\ \E k1 \in {<<"a">>}, k2 \in {<<"b">>} :
          LET old == Walk(last.pre, <<k1, k2>>, 1)
              oth == Walk(last.value, <<k1, k2>>, 1)
              new == Walk(root, <<k1, k2>>, 1)
          IN  /\ IsObject(old) /\ IsObject(oth) /\ IsObject(new)
              /\ \E i \in 1..Len(old.keys) :
                    ~HasKey(oth, old.keys[i]) /\ HasKey(new, old.keys[i])
              /\ \E j \in 1..Len(oth.keys) :
                    ~HasKey(old, oth.keys[j]) /\ HasKey(new, oth.keys[j])

---------------------------------------------------------------------------
(* C9 *)

\* C9: insert(path, v) on a path of non-empty segments whose intermediate
\* segments are absent or objects and whose final segment is absent, followed
\* by get(path), returns v.
C9_InsertThenGet ==
    (/\ last.op = "insert"
     /\ PlainPath(last.path)
     /\ AbsentOrObjects(last.pre, Segments(last.path), Len(Segments(last.path)) - 1)
     /\ Walk(last.pre, Segments(last.path), 1) = NotFound)
        => JsonEq(get(root, last.path), last.value)

---------------------------------------------------------------------------
(* C11 *)

\* some named group of rx took part in the match under a reserved name
ReservedCaptured(rx) ==
    \E i \in 1..Len(rx.groups) :
        rx.groups[i].named /\ rx.groups[i].hit /\ rx.groups[i].name \in Reserved

\* C11: when the pattern matches, match_regex fails with the reserved-name
\* error if and only if a named group that took part in the match has a
\* reserved name; a reserved-named group that did not take part (an
\* alternation branch not taken) does not fail the call, which returns
\* Ok(true).
C11_ReservedOnlyWhenCaptured ==
    (last.op = "match_regex" /\ last.rx.valid /\ last.rx.matched) =>
        /\ (res = "Err(reserved)") <=> ReservedCaptured(last.rx)
        /\ ~ReservedCaptured(last.rx) => res = "Ok(true)"

---------------------------------------------------------------------------
(* C12 *)

\* C12: in every state reachable by insert, insert_bulk and merge the number
\* of entries of as_string_values_map() is the number of nodes of the tree,
\* the root not counted unless it is an array.
C12_OneEntryPerNode ==
    Len(as_string_values_map(root)) = NodeCount(root) - (IF IsArray(root) THEN 0 ELSE 1)

---------------------------------------------------------------------------
(* C13 *)

\* C13: insert(path, value) on a path without trailing dot that addresses an
\* existing array appends: afterwards the node at path is an array that holds
\* the previous elements in order and then value.
C13_InsertOnArrayAppends ==
    (/\ last.op = "insert"
     /\ ~TrailingDot(last.path)
     /\ PlainPath(last.path)
     /\ IsArray(Walk(last.pre, Segments(last.path), 1)))
        => Walk(root, Segments(last.path), 1)
              = Arr(Append(Walk(last.pre, Segments(last.path), 1).kids, last.value))

---------------------------------------------------------------------------
(* C14 *)

\* the segments of a path but the last
Front(segs) == SubSeq(segs, 1, Len(segs) - 1)

\* the last call is insert("p.i", v) where p held an array and i is an index
\* of it
InsertAtIndex ==
    /\ last.op = "insert"
    /\ Len(Segments(last.path)) >= 2
    /\ PlainPath(last.path)
    /\ LET segs == Segments(last.path)
           arr == Walk(last.pre, Front(segs), 1)
           i == parse_index(segs[Len(segs)])
       IN  IsArray(arr) /\ i >= 0 /\ i < Len(arr.kids)

\* C14: insert("p.i", v), p an existing array of length n and i < n, leaves
\* at p an array of length n whose element i is v (or the old element merged
\* with v) and whose other elements are unchanged; the array never becomes an
\* object.
C14_IndexAddressesElement ==
    InsertAtIndex =>
        LET segs == Segments(last.path)
            old == Walk(last.pre, Front(segs), 1)
            new == Walk(root, Front(segs), 1)
            i == parse_index(segs[Len(segs)])
        IN  /\ IsArray(new)
            /\ Len(new.kids) = Len(old.kids)
            /\ \A j \in 1..Len(old.kids) : j # i + 1 => new.kids[j] = old.kids[j]
            /\ new.kids[i + 1] \in {last.value, merge_rec(old.kids[i + 1], last.value)}

---------------------------------------------------------------------------
(* C15 *)

\* the last call is insert on a path of two or more segments, no trailing
\* dot, of which some segment but the last held a scalar or an array
InsertThroughNonObject ==
    /\ last.op = "insert"
    /\ IsObject(last.pre)
    /\ ~TrailingDot(last.path)
    /\ PlainPath(last.path)
    /\ Len(Segments(last.path)) >= 2
    /\ \E j \in 1..(Len(Segments(last.path)) - 1) :
          LET node == Walk(last.pre, SubSeq(Segments(last.path), 1, j), 1)
          IN  node # NotFound /\ ~IsObject(node)

\* C15: insert on a path of k >= 2 segments of which a non-final segment
\* holds a scalar or an array replaces that node by an object, at every
\* depth, and goes on: afterwards every non-final segment is an object and
\* get(path) finds the inserted value (an object where an object was
\* inserted); the insert is never dropped.
C15_IntermediatesCoerced ==
    InsertThroughNonObject =>
        /\ \A j \in 1..(Len(Segments(last.path)) - 1) :
              IsObject(Walk(root, SubSeq(Segments(last.path), 1, j), 1))
        /\ IF IsObject(last.value)
           THEN IsObject(get(root, last.path))
           ELSE get(root, last.path) = last.value

---------------------------------------------------------------------------
(* C16 *)

\* every range of the index idx lies inside the buffer of idx
InBounds(idx) ==
    \A i \in 1..Len(idx.key_values) :
        /\ 0 <= idx.key_values[i].start
        /\ idx.key_values[i].start <= idx.key_values[i].end
        /\ idx.key_values[i].end <= Len(idx.data)

\* C16: every range recorded by serialize(value, true), in the single-escaped
\* index and in the double-escaped index, has start <= end <= the length of
\* its own buffer; empty strings, empty objects, empty arrays and strings or
\* keys that need escaping included.
C16_RangesInBounds ==
    (ser.done /\ ser.dbl) =>
        /\ ser.double_serialized.some
        /\ InBounds(ser.serialized)
        /\ InBounds(ser.double_serialized)

\* serialize(value, true) has recorded, in both indexes, an empty string under
\* a key that needs escaping (an empty range) and an empty object or array
C16_Witness ==
    /\ ser.done /\ ser.dbl
    /\ \E pn, pc \in PathNodes(root, <<>>) :
          /\ pn.node = Str(<<>>) /\ Contains(pn.path, "\"")
          /\ pc.node \in {EmptyObj, Arr(<<>>)}
          /\ KvHas(ser.serialized.key_values, pn.path)
          /\ KvHas(ser.double_serialized.key_values, pn.path)
          /\ KvGet(ser.serialized.key_values, pn.path).start
                = KvGet(ser.serialized.key_values, pn.path).end
          /\ KvGet(ser.double_serialized.key_values, pn.path).start
                = KvGet(ser.double_serialized.key_values, pn.path).end
          /\ KvHas(ser.serialized.key_values, pc.path)
          /\ KvGet(ser.double_serialized.key_values, pc.path).end
                = KvGet(ser.double_serialized.key_values, pc.path).start + 2

---------------------------------------------------------------------------
(* C17 *)

RECURSIVE Decode(_)
\* the text a JSON string literal with content x stands for: ok is FALSE when
\* x holds a bare quote or an escape that is none
Decode(x) ==
    IF x = <<>> THEN [ok |-> TRUE, text |-> <<>>]
    ELSE IF Head(x) = "\"" THEN [ok |-> FALSE, text |-> <<>>]
    ELSE IF Head(x) = "\\"
         THEN IF Len(x) >= 2 /\ x[2] \in {"\"", "\\", "n"}
              THEN LET rest == Decode(SubSeq(x, 3, Len(x)))
                   IN  [ok |-> rest.ok,
                        text |-> <<IF x[2] = "n" THEN "\n" ELSE x[2]>> \o rest.text]
              ELSE [ok |-> FALSE, text |-> <<>>]
    ELSE LET rest == Decode(Tail(x))
         IN  [ok |-> rest.ok, text |-> <<Head(x)>> \o rest.text]

\* the paths an index records
IndexPaths(idx) == {idx.key_values[i].path : i \in 1..Len(idx.key_values)}

\* the bytes of the buffer of idx at the range recorded for path p
SliceOf(idx, p) == Slice(idx.data, KvGet(idx.key_values, p).start, KvGet(idx.key_values, p).end)

\* C17: the double-escaped buffer of serialize(value, true) is the
\* single-escaped buffer encoded once more as a JSON string literal, outer
\* quotes stripped; both indexes record the same paths; and for every path
\* the double-escaped slice, decoded as the content of a JSON string, is the
\* single-escaped slice.
C17_DoubleIsReencodedSingle ==
    (ser.done /\ ser.dbl) =>
        /\ ser.double_serialized.data = Escape(ser.serialized.data)
        /\ Decode(ser.double_serialized.data) = [ok |-> TRUE, text |-> ser.serialized.data]
        /\ IndexPaths(ser.double_serialized) = IndexPaths(ser.serialized)
        /\ \A p \in IndexPaths(ser.serialized) :
              Decode(SliceOf(ser.double_serialized, p))
                  = [ok |-> TRUE, text |-> SliceOf(ser.serialized, p)]

\* both indexes record a string that needs escaping under a key that needs
\* escaping, and the two slices of it differ
C17_Witness ==
    /\ ser.done /\ ser.dbl
    /\ \E pn \in PathNodes(root, <<>>) :
          /\ IsString(pn.node) /\ Escape(pn.node.s) # pn.node.s
          /\ Contains(pn.path, "\"")
          /\ pn.path \in IndexPaths(ser.serialized)
          /\ SliceOf(ser.serialized, pn.path) = Escape(pn.node.s)
          /\ SliceOf(ser.double_serialized, pn.path) = Escape(Escape(pn.node.s))
          /\ Len(SliceOf(ser.double_serialized, pn.path)) > Len(SliceOf(ser.serialized, pn.path))

---------------------------------------------------------------------------
(* C18 *)

RECURSIVE DotJoined(_)
\* the segments segs joined by dots
DotJoined(segs) ==
    IF Len(segs) = 0 THEN <<>>
    ELSE IF Len(segs) = 1 THEN segs[1]
    ELSE segs[1] \o <<".">> \o DotJoined(Tail(segs))

RECURSIVE NodesAt(_, _, _, _)
\* the number of nodes below v, from member i on, whose segments (keys and
\* decimal indices from the root, v being at segs) join to the path p
NodesAt(v, segs, p, i) ==
    IF ~(IsObject(v) \/ IsArray(v)) \/ i > Len(v.kids) THEN 0
    ELSE LET here == Append(segs, IF IsObject(v) THEN v.keys[i] ELSE NatText(i - 1))
         IN  (IF DotJoined(here) = p THEN 1 ELSE 0)
             + NodesAt(v.kids[i], here, p, 1)
             + NodesAt(v, segs, p, i + 1)

\* no key of idx is the empty string and each is the path of one node of tree
KeysArePaths(idx, tree) ==
    /\ <<>> \notin IndexPaths(idx)
    /\ \A p \in IndexPaths(idx) : NodesAt(tree, <<>>, p, 1) = 1

\* C18: for every tree reachable through insert and merge, the empty string
\* is a key of neither index of serialize(root, true), and every key of
\* either index is the dot-joined path of exactly one node other than the
\* root; trees with an object that has the empty string as a key included.
C18_RootPathNeverKey ==
    /\ KeysArePaths(serialize(root, TRUE, FALSE).serialized, root)
    /\ KeysArePaths(serialize(root, TRUE, FALSE).double_serialized, root)

---------------------------------------------------------------------------
(* C19 *)

\* the generation is entirely unset
GenerationUnset == sd = DefaultSerializedData

\* the generation is entirely set, every field from one walk of one tree
GenerationSet ==
    /\ sd.is_built
    /\ sd.ac.some /\ sd.serialized.some /\ sd.double_serialized.some
    /\ sd.double_serialized.data = Escape(sd.serialized.data)
    /\ sd.ac.patterns = patterns_of(sd.serialized, 1) \o patterns_of(sd.double_serialized, 2)
    /\ sd.replacements = replacements_of(sd.serialized) \o replacements_of(sd.double_serialized)

\* C19: after every public operation of DataCache returns, a
\* replace_with_data_cache that returns the error of a failed matcher build
\* included, the cached generation is entirely unset (is_built false, ac,
\* serialized and double_serialized None, no replacements) or entirely set
\* (is_built true, all present and from the same walk).
C19_GenerationAllOrNothing == GenerationUnset \/ GenerationSet

---------------------------------------------------------------------------
(* C20 *)

\* C20: serialize(value, false) completes for every tree, trees with string
\* nodes included: no unsigned length computation of it goes below zero (a
\* panic where overflow is checked), it returns no double-escaped result, and
\* its single-escaped buffer and ranges are those of serialize(value, true).
C20_SingleOnlyCompletes ==
    (ser.done /\ ~ser.dbl) =>
        /\ ~ser.panicked
        /\ ~ser.double_serialized.some
        /\ ser.serialized = serialize(root, TRUE, FALSE).serialized

============================================================================
